---- MODULE Spec2Model ----
(***************************************************************************)
(* A model of the financial dashboard shell (App.tsx, StockTable.tsx), its *)
(* AI service module (geminiService) and the retirement projection engine. *)
(*                                                                         *)
(* Text is a sequence of atoms.  An atom is one character, except that the *)
(* opening code fence (three backticks and "json"), the bare code fence    *)
(* (three backticks) and the literal "null" are one atom each; the fences  *)
(* are written with ~ for the backtick.  A JS number is an exact decimal   *)
(* [m, e] = m / 10^e.                                                      *)
(***************************************************************************)
EXTENDS Integers, Sequences, FiniteSets, TLC

\* ------------------------------------------------------------------ bounds
MaxText == 5
MaxInput == 3
ShellMaxInput == 1
MaxKeyText == 2
MaxQtyText == 2
MaxSymbols == 3
MaxYears == 1
MaxSettleKeyText == 1

\* ------------------------------------------------------------- text atoms
FenceJson == "~~~json"
Fence == "~~~"
Quote == "\""
Digits == {"0", "1", "2", "3", "4", "5", "6", "7", "8", "9"}
DigitVal ==
  [d \in Digits |->
     CASE d = "0" -> 0 [] d = "1" -> 1 [] d = "2" -> 2 [] d = "3" -> 3
       [] d = "4" -> 4 [] d = "5" -> 5 [] d = "6" -> 6 [] d = "7" -> 7
       [] d = "8" -> 8 [] d = "9" -> 9]
DigitChar == <<"0", "1", "2", "3", "4", "5", "6", "7", "8", "9">>

SeqsUpTo(S, n) == UNION {[1..k -> S] : k \in 0..n}

\* The first index >= i of s whose atom is in S; Len(s) + 1 when there is none.
RECURSIVE IndexFrom(_, _, _)
IndexFrom(s, i, S) ==
  IF i > Len(s) THEN Len(s) + 1
  ELSE IF s[i] \in S THEN i
  ELSE IndexFrom(s, i + 1, S)

\* The first index >= i of s whose atom is not in S.
RECURSIVE SkipWhile(_, _, _)
SkipWhile(s, i, S) ==
  IF i > Len(s) THEN Len(s) + 1
  ELSE IF s[i] \notin S THEN i
  ELSE SkipWhile(s, i + 1, S)

\* ---------------------------------------------------------------- numbers
RECURSIVE NormNum(_, _)
NormNum(m, e) ==
  IF e > 0 /\ m % 10 = 0 THEN NormNum(m \div 10, e - 1) ELSE [m |-> m, e |-> e]

Zero == [m |-> 0, e |-> 0]

\* The value of a run of digit atoms.
RECURSIVE DigitsValue(_)
DigitsValue(ds) ==
  IF ds = <<>> THEN 0
  ELSE 10 * DigitsValue(SubSeq(ds, 1, Len(ds) - 1)) + DigitVal[ds[Len(ds)]]

\* The decimal digits of n >= 0, at least `width` of them.
RECURSIVE NatDigits(_, _)
NatDigits(n, width) ==
  IF n < 10 /\ width <= 1 THEN <<DigitChar[n + 1]>>
  ELSE Append(NatDigits(n \div 10, width - 1), DigitChar[(n % 10) + 1])

\* ------------------------------------------------------------ JSON values
JNum(n) == [t |-> "num", v |-> n]
JStr(s) == [t |-> "str", v |-> s]
JArr(xs) == [t |-> "arr", v |-> xs]
\* An object is its properties in order: a sequence of <<key, value>> pairs
\* with no key twice.
JObj(ps) == [t |-> "obj", v |-> ps]
JNull == [t |-> "null", v |-> <<>>]
EmptyArr == JArr(<<>>)
EmptyObj == JObj(<<>>)

\* obj[k] = v: an existing key keeps its place, a new key goes last.
ObjSet(ps, k, v) ==
  IF \E i \in 1..Len(ps) : ps[i][1] = k
  THEN [i \in 1..Len(ps) |-> IF ps[i][1] = k THEN <<k, v>> ELSE ps[i]]
  ELSE Append(ps, <<k, v>>)

ObjHas(ps, k) == \E i \in 1..Len(ps) : ps[i][1] = k
ObjGet(ps, k) == ps[CHOOSE i \in 1..Len(ps) : ps[i][1] = k][2]

Fail == [ok |-> FALSE]
Ok(val, pos) == [ok |-> TRUE, val |-> val, pos |-> pos]

Ws == {" "}

\* JSON string: a quote, atoms up to the next quote.
ParseString(s, i) ==
  IF i > Len(s) \/ s[i] # Quote THEN Fail
  ELSE LET j == IndexFrom(s, i + 1, {Quote})
       IN IF j > Len(s) THEN Fail ELSE Ok(SubSeq(s, i + 1, j - 1), j + 1)

\* JSON number: -? (0 | [1-9][0-9]*) (. [0-9]+)?
ParseNumber(s, i) ==
  LET neg == i <= Len(s) /\ s[i] = "-"
      a == IF neg THEN i + 1 ELSE i
      b == IF a <= Len(s) /\ s[a] = "0" THEN a + 1 ELSE SkipWhile(s, a, Digits)
      hasFrac == b <= Len(s) /\ s[b] = "."
      c == IF hasFrac THEN SkipWhile(s, b + 1, Digits) ELSE b
      digits == SubSeq(s, a, b - 1) \o (IF hasFrac THEN SubSeq(s, b + 1, c - 1) ELSE <<>>)
      mag == DigitsValue(digits)
  IN IF b = a \/ (hasFrac /\ c = b + 1) THEN Fail
     ELSE Ok(NormNum(IF neg THEN 0 - mag ELSE mag, IF hasFrac THEN c - b - 1 ELSE 0), c)

RECURSIVE ParseValue(_, _), ParseElems(_, _, _), ParseMembers(_, _, _)

\* One JSON value starting at or after i (leading white space skipped).
ParseValue(s, i) ==
  LET p == SkipWhile(s, i, Ws)
  IN IF p > Len(s) THEN Fail
     ELSE IF s[p] = Quote THEN
       LET r == ParseString(s, p) IN IF r.ok THEN Ok(JStr(r.val), r.pos) ELSE Fail
     ELSE IF s[p] = "null" THEN Ok(JNull, p + 1)
     ELSE IF s[p] = "[" THEN
       LET q == SkipWhile(s, p + 1, Ws)
       IN IF q <= Len(s) /\ s[q] = "]" THEN Ok(EmptyArr, q + 1)
          ELSE ParseElems(s, p + 1, <<>>)
     ELSE IF s[p] = "{" THEN
       LET q == SkipWhile(s, p + 1, Ws)
       IN IF q <= Len(s) /\ s[q] = "}" THEN Ok(EmptyObj, q + 1)
          ELSE ParseMembers(s, p + 1, <<>>)
     ELSE IF s[p] \in Digits \cup {"-"} THEN
       LET r == ParseNumber(s, p) IN IF r.ok THEN Ok(JNum(r.val), r.pos) ELSE Fail
     ELSE Fail

\* value (, value)* ]
ParseElems(s, i, acc) ==
  LET r == ParseValue(s, i)
  IN IF ~r.ok THEN Fail
     ELSE LET q == SkipWhile(s, r.pos, Ws)
          IN IF q > Len(s) THEN Fail
             ELSE IF s[q] = "]" THEN Ok(JArr(Append(acc, r.val)), q + 1)
             ELSE IF s[q] = "," THEN ParseElems(s, q + 1, Append(acc, r.val))
             ELSE Fail

\* string : value (, string : value)* }   (a repeated key keeps its last value)
ParseMembers(s, i, acc) ==
  LET p == SkipWhile(s, i, Ws)
      k == ParseString(s, p)
  IN IF ~k.ok THEN Fail
     ELSE LET c == SkipWhile(s, k.pos, Ws)
          IN IF c > Len(s) \/ s[c] # ":" THEN Fail
             ELSE LET r == ParseValue(s, c + 1)
                  IN IF ~r.ok THEN Fail
                     ELSE LET q == SkipWhile(s, r.pos, Ws)
                              acc2 == ObjSet(acc, k.val, r.val)
                          IN IF q > Len(s) THEN Fail
                             ELSE IF s[q] = "}" THEN Ok(JObj(acc2), q + 1)
                             ELSE IF s[q] = "," THEN ParseMembers(s, q + 1, acc2)
                             ELSE Fail

\* JSON.parse: one value and nothing but white space after it; a failure is
\* the SyntaxError JSON.parse throws.
JSONparse(s) ==
  LET r == ParseValue(s, 1)
  IN IF r.ok /\ SkipWhile(s, r.pos, Ws) > Len(s) THEN [ok |-> TRUE, val |-> r.val]
     ELSE Fail

RECURSIVE JSONstringify(_), JoinElems(_, _), JoinMembers(_, _)

\* The shortest decimal form of a number, as JS prints it.
FormatNum(n) ==
  LET mag == IF n.m < 0 THEN 0 - n.m ELSE n.m
      ds == NatDigits(mag, n.e + 1)
      whole == SubSeq(ds, 1, Len(ds) - n.e)
      frac == SubSeq(ds, Len(ds) - n.e + 1, Len(ds))
  IN (IF n.m < 0 THEN <<"-">> ELSE <<>>) \o whole
       \o (IF n.e > 0 THEN <<".">> \o frac ELSE <<>>)

\* JSON.stringify of a value (no atom of the model needs escaping).
JSONstringify(x) ==
  CASE x.t = "num" -> FormatNum(x.v)
    [] x.t = "str" -> <<Quote>> \o x.v \o <<Quote>>
    [] x.t = "null" -> <<"null">>
    [] x.t = "arr" -> <<"[">> \o JoinElems(x.v, 1) \o <<"]">>
    [] x.t = "obj" -> <<"{">> \o JoinMembers(x.v, 1) \o <<"}">>

JoinElems(xs, i) ==
  IF i > Len(xs) THEN <<>>
  ELSE (IF i > 1 THEN <<",">> ELSE <<>>) \o JSONstringify(xs[i]) \o JoinElems(xs, i + 1)

JoinMembers(ps, i) ==
  IF i > Len(ps) THEN <<>>
  ELSE (IF i > 1 THEN <<",">> ELSE <<>>) \o <<Quote>> \o ps[i][1] \o <<Quote, ":">>
         \o JSONstringify(ps[i][2]) \o JoinMembers(ps, i + 1)

\* ------------------------------------------------------------ extractJson
NoMatch == [found |-> FALSE]

\* text.match of the fenced-block pattern: the first opening fence that some
\* fence follows, and the lazy group up to the nearest one (an opening fence
\* begins with three backticks, so it closes a block too).
FencedMatch(text) ==
  LET i == IndexFrom(text, 1, {FenceJson})
      j == IndexFrom(text, i + 1, {FenceJson, Fence})
  IN IF i > Len(text) \/ j > Len(text) THEN NoMatch
     ELSE [found |-> TRUE, group |-> SubSeq(text, i + 1, j - 1)]

\* text.match of the bracket pattern: the first "[" that a "]" follows, lazily
\* up to the nearest "]".
ArrayMatch(text) ==
  LET i == IndexFrom(text, 1, {"["})
      j == IndexFrom(text, i + 1, {"]"})
  IN IF i > Len(text) \/ j > Len(text) THEN NoMatch
     ELSE [found |-> TRUE, all |-> SubSeq(text, i, j)]

\* The string the try block hands to JSON.parse.
ParseInput(text) ==
  LET jsonMatch == FencedMatch(text)
      arrayMatch == ArrayMatch(text)
  IN IF jsonMatch.found /\ jsonMatch.group # <<>> THEN jsonMatch.group
     ELSE IF arrayMatch.found THEN arrayMatch.all
     ELSE text

Return(v) == [kind |-> "return", val |-> v]
Throw(e) == [kind |-> "throw", err |-> e]

\* The try block alone: it returns what JSON.parse returns, or throws.
ExtractJsonTry(text) ==
  LET r == JSONparse(ParseInput(text))
  IN IF r.ok THEN Return(r.val) ELSE Throw("SyntaxError")

ExtractJsonNoCatch(text) == ExtractJsonTry(text)

\* extractJson: the try block, with every throw caught and turned into [].
extractJson(text) ==
  LET r == ExtractJsonTry(text)
  IN IF r.kind = "throw" THEN Return(EmptyArr) ELSE r

\* ------------------------------------------- retirement projection engine
\* The engine's source is not among the files; it is modelled from its
\* contract (validate, months, monthly rate, closed form with the additive
\* fallback, the 4% rule, the goal flag, the month-by-month recurrence).
\* Amounts are integers; the annual returns of the model are multiples of
\* 1200 so that the monthly rate is an integer and the arithmetic is exact.
MonthsPerYear == 12
WithdrawalRatePct == 4
MinAge == 30

Num(v) == [nan |-> FALSE, v |-> v]
NaN == [nan |-> TRUE, v |-> 0]
Rat(n, d) == [nan |-> FALSE, n |-> n, d |-> d]
RatNaN == [nan |-> TRUE, n |-> 0, d |-> 1]

\* a / b in JS terms: NaN or an infinity when b = 0 (both are "not finite").
Quotient(a, b) ==
  IF b = 0 THEN NaN
  ELSE IF b > 0 THEN Num(a \div b) ELSE Num((0 - a) \div (0 - b))

RECURSIVE Pow(_, _)
Pow(b, n) == IF n <= 0 THEN 1 ELSE b * Pow(b, n - 1)

Months(plan) == (plan.retirementAge - plan.currentAge) * MonthsPerYear
MonthlyRate(plan) == plan.expectedAnnualReturn \div (100 * MonthsPerYear)

\* (a variant that checks the amounts only)
InvalidPlanNoAge(plan) ==
  \/ plan.currentSavings < 0
  \/ plan.monthlySavings < 0

InvalidPlan(plan) ==
  \/ plan.retirementAge < plan.currentAge
  \/ plan.currentSavings < 0
  \/ plan.monthlySavings < 0

\* Step 4's closed form; it divides by the monthly rate.
ClosedForm(plan) ==
  LET months == Months(plan)
      r == MonthlyRate(plan)
      growth == Pow(1 + r, months)
      q == Quotient(growth - 1, r)
  IN IF q.nan THEN NaN
     ELSE Num(plan.currentSavings * growth + plan.monthlySavings * q.v)

\* (a variant that counts one month too many)
TotalAccumulatedExtraMonth(plan) ==
  IF MonthlyRate(plan) = 0
  THEN Num(plan.currentSavings + plan.monthlySavings * (Months(plan) + 1))
  ELSE Num(plan.currentSavings * Pow(1 + MonthlyRate(plan), Months(plan) + 1)
           + plan.monthlySavings
               * Quotient(Pow(1 + MonthlyRate(plan), Months(plan) + 1) - 1,
                          MonthlyRate(plan)).v)

\* (a variant without the additive fallback)
TotalAccumulatedNoFallback(plan) == ClosedForm(plan)

\* Step 4: the closed form, additive when the monthly rate is 0.
TotalAccumulated(plan) ==
  IF MonthlyRate(plan) = 0
  THEN Num(plan.currentSavings + plan.monthlySavings * Months(plan))
  ELSE ClosedForm(plan)

\* The month-by-month recurrence, with the number of iterations it took.
RECURSIVE Simulate(_, _, _, _)
Simulate(balance, r, monthly, n) ==
  IF n = 0 THEN [balance |-> balance, iterations |-> 0]
  ELSE LET rest == Simulate(balance * (1 + r) + monthly, r, monthly, n - 1)
       IN [balance |-> rest.balance, iterations |-> rest.iterations + 1]

\* Step 5: the fixed 4%-a-year rule, a twelfth of it a month.
PensionAtRate(total, pct) ==
  IF total.nan THEN RatNaN ELSE Rat(total.v * pct, 100 * MonthsPerYear)

\* (a variant that withdraws at the plan's own expected return)
PensionAtPlanRate(plan, total) == PensionAtRate(total, plan.expectedAnnualReturn)

MonthlyPensionPossible(plan, total) == PensionAtRate(total, WithdrawalRatePct)

\* a >= target for a rational a; every comparison with NaN is false.
RatGE(a, target) == ~a.nan /\ a.n >= target * a.d

\* Step 6.
IsGoalReachable(pension, plan) == RatGE(pension, plan.targetMonthlyPension)

InvalidInput == [kind |-> "error", err |-> "InvalidInput"]

ProjectUnchecked(plan) ==
  LET total == TotalAccumulated(plan)
      pension == MonthlyPensionPossible(plan, total)
      sim == IF Months(plan) >= 0
             THEN Simulate(plan.currentSavings, MonthlyRate(plan),
                           plan.monthlySavings, Months(plan))
             ELSE [balance |-> plan.currentSavings, iterations |-> 0]
  IN [kind |-> "result",
      totalAccumulated |-> total,
      monthlyPensionPossible |-> pension,
      isGoalReachable |-> IsGoalReachable(pension, plan),
      simulated |-> sim.balance,
      iterations |-> sim.iterations]

\* project(plan): step 1 fails before anything is computed.
project(plan) == IF InvalidPlan(plan) THEN InvalidInput ELSE ProjectUnchecked(plan)

\* ------------------------------------------------------------------ state
VARIABLES
  phase,            \* "boot" before the component mounts, "running" after
  storage,          \* localStorage: apiKey, symbols, quantities
  envKey,           \* whether the build environment supplies an API key
  mySymbols,        \* the watch-list, a sequence of symbols
  inputSymbol,      \* the text of the symbol input
  stockQuantities,  \* symbol -> quantity, a sequence of <<symbol, number>>
  portfolioStocks,  \* what the last portfolio analysis resolved with
  portfolioLoading,
  trendStocks,      \* what the last trends scan resolved with
  trendLoading,
  errorMsg,
  showApiKeyModal,
  apiKeyInput,
  trendInFlight,    \* trends requests awaiting the AI service
  portfolioInFlight,
  last,             \* the last handler that ran and how it ended
  text,             \* an AI response text handed to extractJson
  extracted,        \* what extractJson did with it
  plan,             \* a retirement plan handed to project
  outcome,          \* what project did with it
  expandedId        \* the portfolio table's expanded symbol: <<>> or <<symbol>>

watchVars == <<mySymbols, inputSymbol>>
qtyVars == <<stockQuantities>>
keyVars == <<showApiKeyModal, apiKeyInput>>
trendVars == <<trendStocks, trendLoading, trendInFlight>>
portfolioVars == <<portfolioStocks, portfolioLoading, portfolioInFlight>>
shellVars == <<phase, storage, envKey, watchVars, qtyVars, keyVars, trendVars,
               portfolioVars, errorMsg, last>>
jsonVars == <<text, extracted>>
planVars == <<plan, outcome>>
tableVars == <<expandedId>>
vars == <<shellVars, jsonVars, planVars, tableVars>>

\* ---------------------------------------------------------- shell helpers
Absent == [has |-> FALSE, text |-> <<>>]
Stored(t) == [has |-> TRUE, text |-> t]

NoError == "null"
TrendsFailed == "trends-failed"       \* the message of handleFetchTrends
AnalysisFailed == "analysis-failed"   \* the message of handleAnalyzePortfolio

SymbolsToJson(syms) == JArr([i \in 1..Len(syms) |-> JStr(syms[i])])
JsonToSymbols(j) == [i \in 1..Len(j.v) |-> j.v[i].v]
QuantitiesToJson(q) == JObj([i \in 1..Len(q) |-> <<q[i][1], JNum(q[i][2])>>])
JsonToQuantities(j) == [i \in 1..Len(j.v) |-> <<j.v[i][1], j.v[i][2].v>>]

\* The useState initialisers: `saved ? JSON.parse(saved) : empty`, and the
\* empty value again when JSON.parse throws.  A missing item is null and an
\* empty string is falsy.
LoadSymbols(item) ==
  IF ~item.has \/ item.text = <<>> THEN <<>>
  ELSE LET r == JSONparse(item.text)
       IN IF r.ok THEN JsonToSymbols(r.val) ELSE <<>>

LoadQuantities(item) ==
  IF ~item.has \/ item.text = <<>> THEN <<>>
  ELSE LET r == JSONparse(item.text)
       IN IF r.ok THEN JsonToQuantities(r.val) ELSE <<>>

\* The persist effects: localStorage.setItem(key, JSON.stringify(state)).
SaveSymbols(syms) == Stored(JSONstringify(SymbolsToJson(syms)))
SaveQuantities(q) == Stored(JSONstringify(QuantitiesToJson(q)))

\* getApiKey: the stored key when it is non-empty, else the environment's.
KeyAvailable(st, env) == (st.apiKey.has /\ st.apiKey.text # <<>>) \/ env

Separators == {",", " "}
WhiteSpace == {" ", "\t"}

\* inputSymbol.split(/[, ]+/): the pieces between runs of separators, an
\* empty piece at a leading or trailing run included.
RECURSIVE Split(_)
Split(s) ==
  LET i == IndexFrom(s, 1, Separators)
  IN IF i > Len(s) THEN <<s>>
     ELSE <<SubSeq(s, 1, i - 1)>>
            \o Split(SubSeq(s, SkipWhile(s, i, Separators), Len(s)))

RECURSIVE Trim(_)
Trim(s) ==
  IF s = <<>> THEN s
  ELSE IF s[1] \in WhiteSpace THEN Trim(Tail(s))
  ELSE IF s[Len(s)] \in WhiteSpace THEN Trim(SubSeq(s, 1, Len(s) - 1))
  ELSE s

UpperChar(c) == CASE c = "a" -> "A" [] c = "b" -> "B" [] OTHER -> c
ToUpperCase(s) == [i \in 1..Len(s) |-> UpperChar(s[i])]

Includes(xs, x) == \E i \in 1..Len(xs) : xs[i] = x

\* newSymbols of handleAddSymbol: split, trim and upper-case, drop the empty.
NewSymbols(input) ==
  LET pieces == Split(input)
      cleaned == [i \in 1..Len(pieces) |-> ToUpperCase(Trim(pieces[i]))]
  IN SelectSeq(cleaned, LAMBDA p : Len(p) > 0)

\* (a variant that does not look at the watch-list)
UniqueNewSymbolsUnfiltered(input, syms) == NewSymbols(input)

\* uniqueNewSymbols of handleAddSymbol: those not in the watch-list.
UniqueNewSymbols(input, syms) ==
  SelectSeq(NewSymbols(input), LAMBDA p : ~Includes(syms, p))

\* (a variant that removes the first occurrence only)
RemoveSymbolFirstOnly(syms, sym) ==
  LET i == IndexFrom(syms, 1, {sym})
  IN SubSeq(syms, 1, i - 1) \o SubSeq(syms, i + 1, Len(syms))

\* mySymbols.filter(s => s !== symbolToRemove)
RemoveSymbol(syms, sym) == SelectSeq(syms, LAMBDA p : p # sym)

\* The value of a number input: the typed text when it is a valid
\* floating-point number, -? (digits (. digits)? | . digits), and "" when not.
ValidFloat(s) ==
  LET a == IF s # <<>> /\ s[1] = "-" THEN 2 ELSE 1
      b == SkipWhile(s, a, Digits)
      c == IF b <= Len(s) /\ s[b] = "." THEN SkipWhile(s, b + 1, Digits) ELSE b
  IN /\ c = Len(s) + 1
     /\ c > a
     /\ (b <= Len(s) => c > b + 1)

InputValue(s) == IF ValidFloat(s) THEN s ELSE <<>>

\* Number(v) of such a value: 0 for "", else its decimal value.
NumberOf(v) ==
  IF v = <<>> THEN Zero
  ELSE LET neg == v[1] = "-"
           a == IF neg THEN 2 ELSE 1
           b == SkipWhile(v, a, Digits)
           fracLen == IF b <= Len(v) THEN Len(v) - b ELSE 0
           mag == DigitsValue(SubSeq(v, a, b - 1) \o SubSeq(v, b + 1, Len(v)))
       IN NormNum(IF neg THEN 0 - mag ELSE mag, fracLen)

\* Number(e.target.value) of the quantity input's onChange.
QtyOfInput(s) == NumberOf(InputValue(s))

\* analyzePortfolio / analyzeMarketTrends after the service answered:
\* extractJson(response.text || "[]").
AnalyzeResult(t) == extractJson(IF t = <<>> THEN <<"[", "]">> ELSE t)

\* Whether JSON.parse failed on the answer (extractJson fell back to []).
Malformed(t) == ExtractJsonTry(IF t = <<>> THEN <<"[", "]">> ELSE t).kind = "throw"

\* The key of a table row: stock.symbol.
StockSymbol(stock) ==
  IF stock.t = "obj" /\ ObjHas(stock.v, <<"symbol">>)
     /\ ObjGet(stock.v, <<"symbol">>).t = "str"
  THEN ObjGet(stock.v, <<"symbol">>).v
  ELSE <<"undefined">>

\* The rows of the portfolio table that show a quantity input: the table is
\* rendered when portfolioStocks.length > 0 and shows rows when not loading.
QuantityRows ==
  IF portfolioStocks.t = "arr" /\ ~portfolioLoading
  THEN {StockSymbol(portfolioStocks.v[i]) : i \in 1..Len(portfolioStocks.v)}
  ELSE {}

\* ------------------------------------------------------------ StockTable
\* {portfolioStocks.length > 0 && <StockTable .../>}
TableMounted(stocks) == stocks.t \in {"arr", "str"} /\ Len(stocks.v) > 0

\* The table shows its rows when it is rendered and not loading.
RowsShown == TableMounted(portfolioStocks) /\ portfolioStocks.t = "arr" /\ ~portfolioLoading

\* The rows for which expandedId === stock.symbol.
ExpandedRows ==
  IF RowsShown
  THEN {i \in 1..Len(portfolioStocks.v) :
          expandedId = <<StockSymbol(portfolioStocks.v[i])>>}
  ELSE {}

\* A JS number of the table's arithmetic: a decimal m / 10^e, or NaN.  The
\* arithmetic is exact where JS rounds each operation.
Dec(n) == [nan |-> FALSE, m |-> n.m, e |-> n.e]
DecNaN == [nan |-> TRUE, m |-> 0, e |-> 0]

DecMul(a, b) ==
  IF a.nan \/ b.nan THEN DecNaN ELSE Dec(NormNum(a.m * b.m, a.e + b.e))

DecAdd(a, b) ==
  IF a.nan \/ b.nan THEN DecNaN
  ELSE LET e == IF a.e > b.e THEN a.e ELSE b.e
       IN Dec(NormNum(a.m * Pow(10, e - a.e) + b.m * Pow(10, e - b.e), e))

\* stock.currentPrice as the multiplication sees it: a number as it is, a
\* numeric string and null converted, NaN for a missing price and the rest.
StockPrice(stock) ==
  IF stock.t # "obj" \/ ~ObjHas(stock.v, <<"currentPrice">>) THEN DecNaN
  ELSE LET p == ObjGet(stock.v, <<"currentPrice">>)
       IN CASE p.t = "num" -> Dec(p.v)
            [] p.t = "null" -> Dec(Zero)
            [] p.t = "str" -> IF p.v = <<>> THEN Dec(Zero)
                              ELSE IF ValidFloat(p.v) THEN Dec(NumberOf(p.v))
                              ELSE DecNaN
            [] OTHER -> DecNaN

\* The quantities prop: absent for the trends table.
NoQuantities == [given |-> FALSE, map |-> <<>>]
Quantities(map) == [given |-> TRUE, map |-> map]

\* quantities[stock.symbol] || 0
QuantityOr0(map, stock) ==
  IF ObjHas(map, StockSymbol(stock)) THEN Dec(ObjGet(map, StockSymbol(stock)))
  ELSE Dec(Zero)

\* totalVal of a row: stock.currentPrice * qty.
RowTotal(stock, quantities) ==
  DecMul(StockPrice(stock),
         IF quantities.given THEN QuantityOr0(quantities.map, stock) ELSE Dec(Zero))

\* stocks.reduce((sum, stock) => sum + stock.currentPrice * qty, 0)
RECURSIVE Reduce(_, _, _)
Reduce(stocks, map, sum) ==
  IF stocks = <<>> THEN sum
  ELSE Reduce(Tail(stocks), map,
              DecAdd(sum, DecMul(StockPrice(Head(stocks)), QuantityOr0(map, Head(stocks)))))

\* (a variant that adds up the first row only)
GrandTotalFirstRow(stocks, quantities) ==
  IF quantities.given /\ stocks # <<>>
  THEN Reduce(<<Head(stocks)>>, quantities.map, Dec(Zero))
  ELSE Dec(Zero)

\* grandTotal
GrandTotal(stocks, quantities) ==
  IF quantities.given THEN Reduce(stocks, quantities.map, Dec(Zero)) ELSE Dec(Zero)

\* ---------------------------------------------------------------- actions
Pending == [kind |-> "pending"]
Did(op, out) == [op |-> op, out |-> out]

DefaultPlan ==
  [currentAge |-> MinAge, retirementAge |-> MinAge, currentSavings |-> 0,
   monthlySavings |-> 0, expectedAnnualReturn |-> 0, targetMonthlyPension |-> 0]

\* The component's state before it mounts (the useState defaults).
Unmounted ==
  /\ phase = "boot"
  /\ mySymbols = <<>>
  /\ inputSymbol = <<>>
  /\ stockQuantities = <<>>
  /\ portfolioStocks = EmptyArr
  /\ portfolioLoading = FALSE
  /\ trendStocks = EmptyArr
  /\ trendLoading = FALSE
  /\ errorMsg = NoError
  /\ showApiKeyModal = FALSE
  /\ apiKeyInput = <<>>
  /\ trendInFlight = 0
  /\ portfolioInFlight = 0
  /\ expandedId = <<>>

\* (a variant whose client is built without looking for a key)
HandleFetchTrendsUnchecked(st) ==
  /\ errorMsg' = NoError
  /\ trendLoading' = TRUE
  /\ trendInFlight' = trendInFlight + 1

\* handleFetchTrends up to its await: with no key getAIClient throws, the
\* catch reports it and the finally clears the flag before any other event.
HandleFetchTrends(st) ==
  IF KeyAvailable(st, envKey)
  THEN /\ errorMsg' = NoError
       /\ trendLoading' = TRUE
       /\ trendInFlight' = trendInFlight + 1
  ELSE /\ errorMsg' = TrendsFailed
       /\ trendLoading' = FALSE
       /\ trendInFlight' = trendInFlight

FetchOutcome(st) == IF KeyAvailable(st, envKey) THEN "sent" ELSE "no-key"

\* The first render: the state initialisers, then the three mount effects.
Mount ==
  /\ phase = "boot"
  /\ phase' = "running"
  /\ mySymbols' = LoadSymbols(storage.symbols)
  /\ stockQuantities' = LoadQuantities(storage.quantities)
  /\ storage' = [storage EXCEPT !.symbols = SaveSymbols(mySymbols'),
                                !.quantities = SaveQuantities(stockQuantities')]
  /\ IF ~KeyAvailable(storage, envKey)
     THEN /\ showApiKeyModal' = TRUE
          /\ UNCHANGED <<errorMsg, trendLoading, trendInFlight>>
          /\ last' = Did("Mount", "modal")
     ELSE /\ showApiKeyModal' = FALSE
          /\ HandleFetchTrends(storage)
          /\ last' = Did("Mount", "sent")
  /\ UNCHANGED <<envKey, inputSymbol, apiKeyInput, trendStocks, portfolioVars,
                 jsonVars, planVars, tableVars>>

\* A keystroke in the symbol input (onChange): one more atom, or one less.
TypeSymbol(atoms, maxLen) ==
  /\ phase = "running"
  /\ \/ \E c \in atoms :
          /\ Len(inputSymbol) < maxLen
          /\ inputSymbol' = Append(inputSymbol, c)
     \/ /\ inputSymbol # <<>>
        /\ inputSymbol' = SubSeq(inputSymbol, 1, Len(inputSymbol) - 1)
  /\ last' = Did("TypeSymbol", "typed")
  /\ UNCHANGED <<phase, storage, envKey, mySymbols, qtyVars, keyVars, trendVars,
                 portfolioVars, errorMsg, jsonVars, planVars, tableVars>>

handleAddSymbol ==
  /\ phase = "running"
  /\ LET unique == UniqueNewSymbols(inputSymbol, mySymbols)
     IN /\ Len(mySymbols) + Len(unique) <= MaxSymbols
        /\ IF inputSymbol # <<>> /\ Len(unique) > 0
           THEN /\ mySymbols' = mySymbols \o unique
                /\ inputSymbol' = <<>>
                /\ storage' = [storage EXCEPT !.symbols = SaveSymbols(mySymbols')]
                /\ last' = Did("handleAddSymbol", "added")
           ELSE /\ UNCHANGED <<mySymbols, inputSymbol, storage>>
                /\ last' = Did("handleAddSymbol", "nothing")
  /\ UNCHANGED <<phase, envKey, qtyVars, keyVars, trendVars, portfolioVars,
                 errorMsg, jsonVars, planVars, tableVars>>

handleRemoveSymbol ==
  /\ phase = "running"
  /\ \E i \in 1..Len(mySymbols) :
        /\ mySymbols' = RemoveSymbol(mySymbols, mySymbols[i])
        /\ last' = [op |-> "handleRemoveSymbol", out |-> "removed"]
  /\ storage' = [storage EXCEPT !.symbols = SaveSymbols(mySymbols')]
  /\ UNCHANGED <<phase, envKey, inputSymbol, qtyVars, keyVars, trendVars,
                 portfolioVars, errorMsg, jsonVars, planVars, tableVars>>

\* (a variant whose persist effect does not run)
handleQuantityChangeNoPersist(typed) ==
  /\ phase = "running"
  /\ \E symbol \in QuantityRows, t \in typed :
        stockQuantities' = ObjSet(stockQuantities, symbol, QtyOfInput(t))
  /\ last' = Did("handleQuantityChange", "set")
  /\ UNCHANGED <<phase, storage, envKey, watchVars, keyVars, trendVars, portfolioVars,
                 errorMsg, jsonVars, planVars, tableVars>>

\* setStockQuantities(prev => ({...prev, [symbol]: qty})), then the persist
\* effect.
handleQuantityChange(typed) ==
  /\ phase = "running"
  /\ \E symbol \in QuantityRows, t \in typed :
        stockQuantities' = ObjSet(stockQuantities, symbol, QtyOfInput(t))
  /\ storage' = [storage EXCEPT !.quantities = SaveQuantities(stockQuantities')]
  /\ last' = Did("handleQuantityChange", "set")
  /\ UNCHANGED <<phase, envKey, watchVars, keyVars, trendVars, portfolioVars,
                 errorMsg, jsonVars, planVars, tableVars>>

\* (a variant whose button stays enabled while a scan is loading)
handleFetchTrendsWhileLoading ==
  /\ phase = "running"
  /\ trendInFlight < 2
  /\ HandleFetchTrends(storage)
  /\ last' = Did("handleFetchTrends", FetchOutcome(storage))
  /\ UNCHANGED <<phase, storage, envKey, watchVars, qtyVars, keyVars, trendStocks,
                 portfolioVars, jsonVars, planVars, tableVars>>

\* The rescan button, disabled while trendLoading.
handleFetchTrends ==
  /\ phase = "running"
  /\ ~trendLoading
  /\ HandleFetchTrends(storage)
  /\ last' = Did("handleFetchTrends", FetchOutcome(storage))
  /\ UNCHANGED <<phase, storage, envKey, watchVars, qtyVars, keyVars, trendStocks,
                 portfolioVars, jsonVars, planVars, tableVars>>

\* analyzeMarketTrends resolved: setTrendStocks(data), then the finally.
TrendsResolve(answers) ==
  /\ phase = "running"
  /\ trendInFlight > 0
  /\ \E t \in answers :
        /\ trendStocks' = AnalyzeResult(t).val
        /\ last' = Did("TrendsResolve", IF Malformed(t) THEN "malformed" ELSE "parsed")
  /\ trendLoading' = FALSE
  /\ trendInFlight' = trendInFlight - 1
  /\ UNCHANGED <<phase, storage, envKey, watchVars, qtyVars, keyVars, portfolioVars,
                 errorMsg, jsonVars, planVars, tableVars>>

\* (a variant whose catch only logs)
TrendsRejectSilent ==
  /\ phase = "running"
  /\ trendInFlight > 0
  /\ trendLoading' = FALSE
  /\ trendInFlight' = trendInFlight - 1
  /\ last' = Did("TrendsReject", "rejected")
  /\ UNCHANGED <<phase, storage, envKey, watchVars, qtyVars, keyVars, trendStocks,
                 portfolioVars, errorMsg, jsonVars, planVars, tableVars>>

\* analyzeMarketTrends rejected: the catch, then the finally.
TrendsReject ==
  /\ phase = "running"
  /\ trendInFlight > 0
  /\ errorMsg' = TrendsFailed
  /\ trendLoading' = FALSE
  /\ trendInFlight' = trendInFlight - 1
  /\ last' = Did("TrendsReject", "rejected")
  /\ UNCHANGED <<phase, storage, envKey, watchVars, qtyVars, keyVars, trendStocks,
                 portfolioVars, jsonVars, planVars, tableVars>>

\* The analyse button, disabled on an empty watch-list and while loading.
handleAnalyzePortfolio ==
  /\ phase = "running"
  /\ Len(mySymbols) > 0
  /\ ~portfolioLoading
  /\ IF KeyAvailable(storage, envKey)
     THEN /\ errorMsg' = NoError
          /\ portfolioLoading' = TRUE
          /\ portfolioInFlight' = portfolioInFlight + 1
     ELSE /\ errorMsg' = AnalysisFailed
          /\ portfolioLoading' = FALSE
          /\ portfolioInFlight' = portfolioInFlight
  /\ last' = Did("handleAnalyzePortfolio", FetchOutcome(storage))
  /\ UNCHANGED <<phase, storage, envKey, watchVars, qtyVars, keyVars, trendVars,
                 portfolioStocks, jsonVars, planVars, tableVars>>

\* (a variant that forgets the quantities when new results arrive)
PortfolioResolveClearing(answers) ==
  /\ phase = "running"
  /\ portfolioInFlight > 0
  /\ \E t \in answers :
        /\ portfolioStocks' = AnalyzeResult(t).val
        /\ last' = Did("PortfolioResolve", IF Malformed(t) THEN "malformed" ELSE "parsed")
  /\ portfolioLoading' = FALSE
  /\ portfolioInFlight' = portfolioInFlight - 1
  /\ stockQuantities' = <<>>
  /\ storage' = [storage EXCEPT !.quantities = SaveQuantities(stockQuantities')]
  /\ expandedId' = IF TableMounted(portfolioStocks') THEN expandedId ELSE <<>>
  /\ UNCHANGED <<phase, envKey, watchVars, keyVars, trendVars, errorMsg, jsonVars,
                 planVars>>

\* analyzePortfolio resolved: setPortfolioStocks(data), then the finally.  The
\* portfolio table is rendered only for a non-empty list, and a table that is
\* rendered anew starts with no row expanded.
PortfolioResolve(answers) ==
  /\ phase = "running"
  /\ portfolioInFlight > 0
  /\ \E t \in answers :
        /\ portfolioStocks' = AnalyzeResult(t).val
        /\ last' = Did("PortfolioResolve", IF Malformed(t) THEN "malformed" ELSE "parsed")
  /\ portfolioLoading' = FALSE
  /\ portfolioInFlight' = portfolioInFlight - 1
  /\ expandedId' = IF TableMounted(portfolioStocks') THEN expandedId ELSE <<>>
  /\ UNCHANGED <<phase, storage, envKey, watchVars, qtyVars, keyVars, trendVars,
                 errorMsg, jsonVars, planVars>>

PortfolioReject ==
  /\ phase = "running"
  /\ portfolioInFlight > 0
  /\ errorMsg' = AnalysisFailed
  /\ portfolioLoading' = FALSE
  /\ portfolioInFlight' = portfolioInFlight - 1
  /\ last' = Did("PortfolioReject", "rejected")
  /\ UNCHANGED <<phase, storage, envKey, watchVars, qtyVars, keyVars, trendVars,
                 portfolioStocks, jsonVars, planVars, tableVars>>

\* A keystroke in the modal's key input.
TypeApiKey(atoms, maxLen) ==
  /\ phase = "running"
  /\ showApiKeyModal
  /\ \/ \E c \in atoms :
          /\ Len(apiKeyInput) < maxLen
          /\ apiKeyInput' = Append(apiKeyInput, c)
     \/ /\ apiKeyInput # <<>>
        /\ apiKeyInput' = SubSeq(apiKeyInput, 1, Len(apiKeyInput) - 1)
  /\ last' = Did("TypeApiKey", "typed")
  /\ UNCHANGED <<phase, storage, envKey, watchVars, qtyVars, showApiKeyModal,
                 trendVars, portfolioVars, errorMsg, jsonVars, planVars, tableVars>>

\* The modal's button, disabled while the trimmed input is empty.
handleSaveApiKey ==
  /\ phase = "running"
  /\ showApiKeyModal
  /\ Trim(apiKeyInput) # <<>>
  /\ storage' = [storage EXCEPT !.apiKey = Stored(Trim(apiKeyInput))]
  /\ showApiKeyModal' = FALSE
  /\ HandleFetchTrends(storage')
  /\ last' = Did("handleSaveApiKey", "sent")
  /\ UNCHANGED <<phase, envKey, watchVars, qtyVars, apiKeyInput, trendStocks,
                 portfolioVars, jsonVars, planVars, tableVars>>

\* clearApiKey, confirmed: the key is removed and the page reloads, which
\* drops the component's state and its pending callbacks.
clearApiKey ==
  /\ phase = "running"
  /\ storage' = [storage EXCEPT !.apiKey = Absent]
  /\ phase' = "boot"
  /\ mySymbols' = <<>>
  /\ inputSymbol' = <<>>
  /\ stockQuantities' = <<>>
  /\ portfolioStocks' = EmptyArr
  /\ portfolioLoading' = FALSE
  /\ trendStocks' = EmptyArr
  /\ trendLoading' = FALSE
  /\ errorMsg' = NoError
  /\ showApiKeyModal' = FALSE
  /\ apiKeyInput' = <<>>
  /\ trendInFlight' = 0
  /\ portfolioInFlight' = 0
  /\ expandedId' = <<>>
  /\ last' = Did("clearApiKey", "reloaded")
  /\ UNCHANGED <<envKey, jsonVars, planVars>>

\* A click on a row outside its quantity input, or on an item of the summary
\* cards: toggleExpand(stock.symbol).
toggleExpand ==
  /\ phase = "running"
  /\ RowsShown
  /\ \E i \in 1..Len(portfolioStocks.v) :
        LET symbol == StockSymbol(portfolioStocks.v[i])
        IN expandedId' = IF expandedId = <<symbol>> THEN <<>> ELSE <<symbol>>
  /\ last' = Did("toggleExpand", "toggled")
  /\ UNCHANGED <<phase, storage, envKey, watchVars, qtyVars, keyVars, trendVars,
                 portfolioVars, errorMsg, jsonVars, planVars>>

\* A click on a row's quantity input: the input stops the propagation, and
\* the row's handler ignores a target that is an INPUT.
clickQuantityInput ==
  /\ phase = "running"
  /\ RowsShown
  /\ last' = Did("clickQuantityInput", "ignored")
  /\ UNCHANGED <<phase, storage, envKey, watchVars, qtyVars, keyVars, trendVars,
                 portfolioVars, errorMsg, jsonVars, planVars, tableVars>>

ApplyExtractJson ==
  /\ extracted = Pending
  /\ extracted' = extractJson(text)
  /\ UNCHANGED <<shellVars, text, planVars, tableVars>>

ApplyProject ==
  /\ outcome = Pending
  /\ outcome' = project(plan)
  /\ UNCHANGED <<shellVars, jsonVars, plan, tableVars>>

\* --------------------------------------------------------- what is tried
SymA == <<"A">>
SymB == <<"B">>

\* Answers of the AI service: a fenced array of one record, an empty answer
\* and prose; and a bare array of two records.
RecordText(sym, price) ==
  <<"{", Quote, "symbol", Quote, ":", Quote>> \o sym
    \o <<Quote, ",", Quote, "currentPrice", Quote, ":", price, "}">>
SampleAnswers ==
  { <<FenceJson, "[">> \o RecordText(SymA, "2") \o <<"]", Fence>>,
    <<>>,
    <<"x", "x">> }
TwoRecordAnswers ==
  { <<"[">> \o RecordText(SymA, "2") \o <<",">> \o RecordText(SymB, "3") \o <<"]">> }

TextAtoms == {FenceJson, Fence, "[", "]", "{", "}", "1", Quote}
AllTexts == SeqsUpTo(TextAtoms, MaxText)

InputAtoms == {"a", "A", ",", " "}

QtyAtoms == {"-", "2", "."}
AllQtyTexts == SeqsUpTo(QtyAtoms, MaxQtyText)
SampleQtyTexts == {<<"2">>}

KeyAtoms == {" ", "k"}

\* What localStorage may hold when the page loads: nothing, something that
\* is not JSON, or what the persist effects wrote.
Garbage == <<"[", Quote>>
SymbolItems(lists) == {Absent, Stored(<<>>), Stored(Garbage)} \cup {SaveSymbols(l) : l \in lists}
QuantityItems(maps) == {Absent, Stored(Garbage)} \cup {SaveQuantities(q) : q \in maps}
KeyItems == {Absent, Stored(<<"k">>)}

InitShell(lists, maps) ==
  /\ Unmounted
  /\ storage \in [apiKey : KeyItems, symbols : SymbolItems(lists),
                   quantities : QuantityItems(maps)]
  /\ envKey \in BOOLEAN
  /\ last = Did("load", "none")
  /\ text = <<>>
  /\ extracted = Pending
  /\ plan = DefaultPlan
  /\ outcome = Pending

\* ------------------------------------------------------------- the shell
Init == InitShell({<<SymA>>}, {<< <<SymA, [m |-> 2, e |-> 0]>> >>})

Next ==
  \/ Mount
  \/ TypeSymbol({"a"}, ShellMaxInput)
  \/ handleAddSymbol
  \/ handleRemoveSymbol
  \/ handleQuantityChange(SampleQtyTexts)
  \/ handleFetchTrends
  \/ TrendsResolve(SampleAnswers)
  \/ TrendsReject
  \/ handleAnalyzePortfolio
  \/ PortfolioResolve(SampleAnswers)
  \/ PortfolioReject
  \/ TypeApiKey(KeyAtoms, MaxKeyText)
  \/ handleSaveApiKey
  \/ clearApiKey

Spec == Init /\ [][Next]_vars

\* ------------------------------------------------ the watch-list editor
InitWatch ==
  /\ InitShell({<<SymA>>, <<<<"A", "A">>, SymA>>}, {})
  /\ storage.apiKey = Stored(<<"k">>)
  /\ storage.quantities = Absent
  /\ envKey = FALSE

NextWatch ==
  \/ Mount
  \/ TypeSymbol(InputAtoms, MaxInput)
  \/ handleAddSymbol
  \/ handleRemoveSymbol
  \/ clearApiKey

SpecWatch == InitWatch /\ [][NextWatch]_vars

\* ------------------------------------------------ the quantity inputs
InitQty ==
  /\ InitShell({<<SymA>>, <<<<"A", "A">>, SymA>>}, {<< <<SymA, [m |-> 2, e |-> 0]>> >>})
  /\ storage.apiKey = Stored(<<"k">>)
  /\ envKey = FALSE

NextQty ==
  \/ Mount
  \/ TypeSymbol({"a"}, ShellMaxInput)
  \/ handleAddSymbol
  \/ handleRemoveSymbol
  \/ handleAnalyzePortfolio
  \/ PortfolioResolve(TwoRecordAnswers)
  \/ handleQuantityChange(AllQtyTexts)
  \/ clearApiKey

SpecQty == InitQty /\ [][NextQty]_vars

\* ----------------------------------------------- extractJson on its own
InitJson ==
  /\ Unmounted
  /\ storage = [apiKey |-> Absent, symbols |-> Absent, quantities |-> Absent]
  /\ envKey = FALSE
  /\ last = Did("load", "none")
  /\ text \in AllTexts
  /\ extracted = Pending
  /\ plan = DefaultPlan
  /\ outcome = Pending

NextJson == ApplyExtractJson

SpecJson == InitJson /\ [][NextJson]_vars

\* --------------------------------------------------- project on its own
Ages == MinAge..(MinAge + MaxYears)
Plans ==
  [currentAge : Ages, retirementAge : Ages, currentSavings : {-1, 0, 5},
   monthlySavings : {-1, 0, 25}, expectedAnnualReturn : {-1200, 0, 1200},
   targetMonthlyPension : {0, 1, 2}]

InitProject ==
  /\ Unmounted
  /\ storage = [apiKey |-> Absent, symbols |-> Absent, quantities |-> Absent]
  /\ envKey = FALSE
  /\ last = Did("load", "none")
  /\ text = <<>>
  /\ extracted = Pending
  /\ plan \in Plans
  /\ outcome = Pending

NextProject == ApplyProject

SpecProject == InitProject /\ [][NextProject]_vars

\* ------------------------------------------- the two requests on their own
\* Answers that are valid JSON but no list of records: an object as the whole
\* text, a number in a fenced block, a bare array of numbers.
NonRecordAnswers ==
  { <<"{", "}">>,
    <<FenceJson, "1", Fence>>,
    <<"[", "1", "]">> }
ServiceAnswers == SampleAnswers \cup NonRecordAnswers

InitService ==
  /\ InitShell({<<SymA>>}, {})
  /\ storage.apiKey = Stored(<<"k">>)
  /\ storage.symbols = SaveSymbols(<<SymA>>)
  /\ storage.quantities = Absent
  /\ envKey = FALSE

NextService ==
  \/ Mount
  \/ handleFetchTrends
  \/ TrendsResolve(ServiceAnswers)
  \/ TrendsReject
  \/ handleAnalyzePortfolio
  \/ PortfolioResolve(ServiceAnswers)
  \/ PortfolioReject
  \/ clearApiKey

SpecService == InitService /\ [][NextService]_vars

\* ------------------------------------------------------ the API key gate
InitKey ==
  /\ Unmounted
  /\ storage \in [apiKey : KeyItems \cup {Stored(<<>>)},
                   symbols : {SaveSymbols(<<SymA>>)},
                   quantities : {Absent}]
  /\ envKey \in BOOLEAN
  /\ last = Did("load", "none")
  /\ text = <<>>
  /\ extracted = Pending
  /\ plan = DefaultPlan
  /\ outcome = Pending

NextKey ==
  \/ Mount
  \/ TypeApiKey(KeyAtoms, MaxKeyText)
  \/ handleSaveApiKey
  \/ handleFetchTrends
  \/ TrendsResolve(SampleAnswers)
  \/ TrendsReject
  \/ handleAnalyzePortfolio
  \/ PortfolioResolve(SampleAnswers)
  \/ PortfolioReject
  \/ clearApiKey

SpecKey == InitKey /\ [][NextKey]_vars

\* ------------------------------------------- requests that always settle
\* The awaited AI call settles (it resolves, or it fails or times out), and
\* the handler's continuation then runs, unless the page was reloaded.
SettleTrends == TrendsResolve(SampleAnswers) \/ TrendsReject
SettlePortfolio == PortfolioResolve(SampleAnswers) \/ PortfolioReject

InitSettle ==
  /\ InitKey
  /\ storage.apiKey \in KeyItems
  /\ envKey = FALSE

NextSettle ==
  \/ Mount
  \/ TypeApiKey({"k"}, MaxSettleKeyText)
  \/ handleSaveApiKey
  \/ handleFetchTrends
  \/ SettleTrends
  \/ handleAnalyzePortfolio
  \/ SettlePortfolio
  \/ clearApiKey

SpecSettle ==
  /\ InitSettle
  /\ [][NextSettle]_vars
  /\ WF_vars(SettleTrends)
  /\ WF_vars(SettlePortfolio)

\* ------------------------------------------- removing from the watch-list
\* The stored watch-list may name a symbol twice (handleAddSymbol can write
\* such a list).
InitRemove ==
  /\ InitShell({<<SymA>>, <<SymA, SymB, SymA>>},
               {<< <<SymA, [m |-> 2, e |-> 0]>>, <<SymB, [m |-> 3, e |-> 0]>> >>})
  /\ storage.apiKey = Stored(<<"k">>)
  /\ storage.symbols \in {SaveSymbols(<<SymA>>), SaveSymbols(<<SymA, SymB, SymA>>)}
  /\ storage.quantities # Stored(Garbage)
  /\ envKey = FALSE

NextRemove ==
  \/ Mount
  \/ TypeSymbol({"a"}, ShellMaxInput)
  \/ handleAddSymbol
  \/ handleRemoveSymbol
  \/ handleAnalyzePortfolio
  \/ PortfolioResolve(TwoRecordAnswers)
  \/ PortfolioReject
  \/ handleQuantityChange(SampleQtyTexts)
  \/ clearApiKey

SpecRemove == InitRemove /\ [][NextRemove]_vars

\* ------------------------------------------------- the portfolio table
\* Answers for the table: two records, two records of one symbol, a record
\* without a price, and the empty answer.
TableAnswers ==
  TwoRecordAnswers
    \cup { <<"[">> \o RecordText(SymA, "2") \o <<",">> \o RecordText(SymA, "3") \o <<"]">>,
           <<"[", "{", Quote, "symbol", Quote, ":", Quote>> \o SymA \o <<Quote, "}", "]">>,
           <<>> }

InitTable ==
  /\ InitShell({<<SymA, SymB>>}, {<< <<SymA, [m |-> 2, e |-> 0]>> >>})
  /\ storage.apiKey = Stored(<<"k">>)
  /\ storage.symbols = SaveSymbols(<<SymA, SymB>>)
  /\ storage.quantities # Stored(Garbage)
  /\ envKey = FALSE

NextTable ==
  \/ Mount
  \/ handleAnalyzePortfolio
  \/ PortfolioResolve(TableAnswers)
  \/ handleQuantityChange(AllQtyTexts)
  \/ toggleExpand
  \/ clickQuantityInput
  \/ clearApiKey

SpecTable == InitTable /\ [][NextTable]_vars

\* ================================================================ claims
\* C1 (SpecJson): for every response text extractJson returns a value and
\* never throws, and whenever the JSON.parse it attempts fails the value is
\* the empty list.
C1_ExtractJsonReturns ==
  extracted # Pending =>
    /\ extracted.kind = "return"
    /\ (~JSONparse(ParseInput(text)).ok => extracted.val = EmptyArr)

\* A text with a fenced block that is not JSON, extracted to [].
C1_Witness ==
  /\ extracted = Return(EmptyArr)
  /\ FencedMatch(text).found
  /\ FencedMatch(text).group # <<>>
  /\ ~JSONparse(FencedMatch(text).group).ok

FailedRequest ==
  \/ last.out = "rejected"
  \/ last.op \in {"handleFetchTrends", "handleAnalyzePortfolio"} /\ last.out = "no-key"

\* C2 as stated (Spec): when a trends or portfolio request ends in a service
\* failure or in a malformed AI response, errorMsg is non-null at that point.
C2_MalformedReported ==
  (FailedRequest \/ last.out = "malformed") => errorMsg # NoError

\* C2 amended (Spec): when a trends or portfolio request ends in a service
\* failure (the AI call rejects, or there is no API key to call it with),
\* errorMsg is that handler's failure message at that point.
C2_FailureReported ==
  /\ (FailedRequest /\ last.op \in {"handleFetchTrends", "TrendsReject"})
       => errorMsg = TrendsFailed
  /\ (FailedRequest /\ last.op \in {"handleAnalyzePortfolio", "PortfolioReject"})
       => errorMsg = AnalysisFailed

\* A portfolio analysis that the service rejected, reported.
C2_Witness == last.op = "PortfolioReject" /\ errorMsg = AnalysisFailed

RequestOps ==
  {"handleFetchTrends", "TrendsResolve", "TrendsReject",
   "handleAnalyzePortfolio", "PortfolioResolve", "PortfolioReject"}

\* C3 (Spec): every step of handleFetchTrends and handleAnalyzePortfolio (the
\* call, and its completion by an answer, a malformed answer or a failure)
\* leaves the watch-list, the quantity map and their stored copies unchanged.
C3_RequestsKeepWatchList ==
  [][last'.op \in RequestOps =>
       /\ mySymbols' = mySymbols
       /\ stockQuantities' = stockQuantities
       /\ storage'.symbols = storage.symbols
       /\ storage'.quantities = storage.quantities]_vars

\* A portfolio analysis that ended in a malformed answer with a watch-list
\* and quantities in place.
C3_Witness ==
  /\ last = Did("PortfolioResolve", "malformed")
  /\ mySymbols # <<>>
  /\ stockQuantities # <<>>
  /\ storage.symbols = SaveSymbols(mySymbols)

\* C4 (SpecProject): project on a plan whose retirementAge is below its
\* currentAge reports InvalidInput and yields no result.
C4_AgeOrderRejected ==
  (outcome # Pending /\ plan.retirementAge < plan.currentAge)
    => outcome = InvalidInput

C4_Witness ==
  /\ outcome = InvalidInput
  /\ plan.retirementAge < plan.currentAge
  /\ plan.currentSavings >= 0
  /\ plan.monthlySavings >= 0

\* C5 (SpecProject): for a valid plan with retirementAge = currentAge,
\* totalAccumulated is exactly currentSavings, whatever the monthly savings
\* and the return, and the recurrence runs no iteration.
C5_ZeroHorizon ==
  (outcome # Pending /\ ~InvalidPlan(plan) /\ plan.retirementAge = plan.currentAge)
    => /\ outcome.kind = "result"
       /\ outcome.totalAccumulated = Num(plan.currentSavings)
       /\ outcome.iterations = 0

C5_Witness ==
  /\ outcome # Pending
  /\ outcome.kind = "result"
  /\ plan.retirementAge = plan.currentAge
  /\ plan.monthlySavings > 0
  /\ plan.expectedAnnualReturn > 0
  /\ plan.currentSavings > 0

\* C6 (SpecProject): for a valid plan with expectedAnnualReturn = 0,
\* totalAccumulated is the number currentSavings + monthlySavings * months,
\* not the NaN of a division by the zero monthly rate.
C6_ZeroReturnAdditive ==
  (outcome # Pending /\ ~InvalidPlan(plan) /\ plan.expectedAnnualReturn = 0)
    => /\ outcome.kind = "result"
       /\ ~outcome.totalAccumulated.nan
       /\ outcome.totalAccumulated.v
            = plan.currentSavings
              + plan.monthlySavings * (plan.retirementAge - plan.currentAge) * 12

C6_Witness ==
  /\ outcome # Pending
  /\ outcome.kind = "result"
  /\ plan.expectedAnnualReturn = 0
  /\ plan.retirementAge > plan.currentAge
  /\ plan.monthlySavings > 0

\* C7 (SpecProject): in every result monthlyPensionPossible is
\* totalAccumulated * 4 / (100 * 12), whatever the plan's return, and
\* isGoalReachable is true exactly when it is >= targetMonthlyPension.
C7_GoalFlag ==
  (outcome # Pending /\ outcome.kind = "result") =>
    /\ ~outcome.totalAccumulated.nan
    /\ outcome.monthlyPensionPossible.n = outcome.totalAccumulated.v * 4
    /\ outcome.monthlyPensionPossible.d = 1200
    /\ outcome.isGoalReachable
         = (outcome.totalAccumulated.v * 4 >= plan.targetMonthlyPension * 1200)

\* A positive target reached under a return that is not 4%.
C7_Witness ==
  /\ outcome # Pending
  /\ outcome.kind = "result"
  /\ outcome.isGoalReachable
  /\ plan.targetMonthlyPension > 0
  /\ plan.expectedAnnualReturn # 0

\* C8 (SpecWatch): the watch-list never holds a symbol twice.
C8_NoDuplicateSymbols ==
  \A i, j \in 1..Len(mySymbols) : i # j => mySymbols[i] # mySymbols[j]

IsNonNegativeInteger(n) == n.e = 0 /\ n.m >= 0

\* C9 (SpecQty): every quantity in the map, and in its stored copy, is a
\* non-negative integer.
C9_QuantitiesNonNegativeIntegers ==
  /\ \A i \in 1..Len(stockQuantities) : IsNonNegativeInteger(stockQuantities[i][2])
  /\ phase = "running" =>
       \A i \in 1..Len(LoadQuantities(storage.quantities)) :
          IsNonNegativeInteger(LoadQuantities(storage.quantities)[i][2])

Unreadable(item) == ~item.has \/ ~JSONparse(item.text).ok

\* C10 (SpecQty): while the app runs the two stored items are the JSON of the
\* watch-list and of the quantity map, and parsing them gives these back, so
\* that a reload restores both; a mount that finds an item absent or
\* unparsable starts from the empty list or the empty map.
C10_PersistRoundTrip ==
  /\ [](phase = "running" =>
          /\ storage.symbols = Stored(JSONstringify(SymbolsToJson(mySymbols)))
          /\ storage.quantities = Stored(JSONstringify(QuantitiesToJson(stockQuantities)))
          /\ LoadSymbols(storage.symbols) = mySymbols
          /\ LoadQuantities(storage.quantities) = stockQuantities)
  /\ [][(phase = "boot" /\ phase' = "running") =>
          /\ mySymbols' = LoadSymbols(storage.symbols)
          /\ stockQuantities' = LoadQuantities(storage.quantities)
          /\ (Unreadable(storage.symbols) => mySymbols' = <<>>)
          /\ (Unreadable(storage.quantities) => stockQuantities' = <<>>)]_vars

\* A reload that restored a watch-list of two symbols and a quantity map
\* holding a negative and a fractional quantity.
C10_Witness ==
  /\ last.op = "Mount"
  /\ Len(mySymbols) = 2
  /\ \E i \in 1..Len(stockQuantities) : stockQuantities[i][2].m < 0
  /\ \E i \in 1..Len(stockQuantities) : stockQuantities[i][2].e > 0

IsRecords(x) == x.t = "arr" /\ \A i \in 1..Len(x.v) : x.v[i].t = "obj"

\* C11 (SpecService): whatever text the AI service answers with, the values
\* the two requests resolve with, stored in trendStocks and portfolioStocks,
\* are sequences of records.
C11_ResultsAreRecordLists == IsRecords(trendStocks) /\ IsRecords(portfolioStocks)

\* C12 (SpecJson): extractJson takes the fenced block when there is one, else
\* the array that opens at the first "[" of the text, else the whole text; when
\* the shape it takes holds a well-formed JSON array (nested arrays included),
\* that array is the result.
C12_StrategiesInOrder ==
  extracted # Pending =>
    LET jsonMatch == FencedMatch(text)
        open == IndexFrom(text, 1, {"["})
    IN IF jsonMatch.found /\ jsonMatch.group # <<>>
       THEN (JSONparse(jsonMatch.group).ok /\ JSONparse(jsonMatch.group).val.t = "arr")
              => extracted = Return(JSONparse(jsonMatch.group).val)
       ELSE (open <= Len(text) /\ ParseValue(text, open).ok)
              => extracted = Return(ParseValue(text, open).val)

TrendOps == {"handleFetchTrends", "TrendsResolve", "TrendsReject"}
PortfolioOps == {"handleAnalyzePortfolio", "PortfolioResolve", "PortfolioReject"}

\* C13 (Spec): the failure message of a trends scan is still shown after any
\* step (start or completion) of a portfolio analysis, and the failure
\* message of a portfolio analysis after any step of a trends scan.
C13_FailuresKeptApart ==
  [][/\ (errorMsg = TrendsFailed /\ last'.op \in PortfolioOps)
          => errorMsg' = TrendsFailed
     /\ (errorMsg = AnalysisFailed /\ last'.op \in TrendOps)
          => errorMsg' = AnalysisFailed]_vars

\* C14 (SpecKey): a request goes out to the AI service only when localStorage
\* or the environment holds a key, and a handler that finds none fails and
\* reports it; a mount without a key shows the modal and starts no fetch;
\* handleSaveApiKey stores the trimmed, non-blank input, closes the modal and
\* starts the fetch.
C14_NoRequestWithoutKey ==
  [][/\ (trendInFlight' > trendInFlight \/ portfolioInFlight' > portfolioInFlight)
          => KeyAvailable(storage', envKey)
     /\ last'.out = "no-key"
          => /\ trendInFlight' = trendInFlight
             /\ portfolioInFlight' = portfolioInFlight
             /\ errorMsg' # NoError
     /\ (phase = "boot" /\ phase' = "running" /\ ~KeyAvailable(storage, envKey))
          => /\ showApiKeyModal'
             /\ ~trendLoading'
             /\ trendInFlight' = 0
     /\ last'.op = "handleSaveApiKey"
          => /\ storage'.apiKey.has
             /\ storage'.apiKey.text # <<>>
             /\ storage'.apiKey.text[1] \notin WhiteSpace
             /\ storage'.apiKey.text[Len(storage'.apiKey.text)] \notin WhiteSpace
             /\ ~showApiKeyModal'
             /\ trendInFlight' = trendInFlight + 1]_vars

\* A key typed with a leading blank, stored trimmed, and the fetch it started.
C14_Witness ==
  /\ last.op = "handleSaveApiKey"
  /\ apiKeyInput = <<" ", "k">>
  /\ storage.apiKey = Stored(<<"k">>)
  /\ ~showApiKeyModal
  /\ trendInFlight = 1

\* C15 (SpecSettle): each loading flag is true exactly while its one request
\* is in flight: it is set when the request starts, at most one request of
\* each kind is in flight, the completion of a request (resolved or rejected)
\* clears its flag and leaves the other, and a flag that is true eventually
\* becomes false.
C15_LoadingTracksRequest ==
  /\ [](/\ trendInFlight \in {0, 1}
        /\ portfolioInFlight \in {0, 1}
        /\ trendLoading = (trendInFlight = 1)
        /\ portfolioLoading = (portfolioInFlight = 1))
  /\ [][/\ (trendInFlight' > trendInFlight) => (~trendLoading /\ trendLoading')
        /\ (portfolioInFlight' > portfolioInFlight)
             => (~portfolioLoading /\ portfolioLoading')
        /\ (last'.op \in {"TrendsResolve", "TrendsReject"})
             => (trendLoading /\ ~trendLoading' /\ portfolioLoading' = portfolioLoading)
        /\ (last'.op \in {"PortfolioResolve", "PortfolioReject"})
             => (portfolioLoading /\ ~portfolioLoading' /\ trendLoading' = trendLoading)]_vars
  /\ (trendLoading ~> ~trendLoading)
  /\ (portfolioLoading ~> ~portfolioLoading)

\* A trends scan that was rejected while a portfolio analysis is in flight.
C15_Witness ==
  /\ last.op = "TrendsReject"
  /\ ~trendLoading
  /\ portfolioLoading
  /\ portfolioInFlight = 1

\* The symbols named by an input text, read atom by atom from the left: a
\* comma or a space ends the symbol being read, any other atom extends it in
\* upper case.
RECURSIVE NamedSymbols(_, _, _)
NamedSymbols(input, cur, acc) ==
  LET done == IF cur = <<>> THEN acc ELSE Append(acc, cur)
  IN IF input = <<>> THEN done
     ELSE IF Head(input) \in Separators THEN NamedSymbols(Tail(input), <<>>, done)
     ELSE NamedSymbols(Tail(input), Append(cur, UpperChar(Head(input))), acc)

\* C16 (SpecWatch): handleAddSymbol keeps the existing entries in place and
\* appends, in input order, the symbols named by the input (split on commas
\* and spaces, upper-cased) that the watch-list does not hold; each of them
\* is non-empty; when there is none, the watch-list and the input text are
\* unchanged.
C16_AddAppendsNewSymbols ==
  [][last'.op = "handleAddSymbol" =>
       LET old == Len(mySymbols)
           added == SubSeq(mySymbols', old + 1, Len(mySymbols'))
       IN /\ Len(mySymbols') >= old
          /\ SubSeq(mySymbols', 1, old) = mySymbols
          /\ added = SelectSeq(NamedSymbols(inputSymbol, <<>>, <<>>),
                                LAMBDA p : ~Includes(mySymbols, p))
          /\ \A i \in 1..Len(added) :
                /\ added[i] # <<>>
                /\ added[i] = ToUpperCase(added[i])
                /\ \A k \in 1..Len(added[i]) : added[i][k] \notin Separators
                /\ ~Includes(mySymbols, added[i])
          /\ added = <<>> => inputSymbol' = inputSymbol]_vars

\* "aa" added to a watch-list that held A.
C16_Witness ==
  /\ last = Did("handleAddSymbol", "added")
  /\ Len(mySymbols) >= 2
  /\ mySymbols[1] = SymA
  /\ mySymbols[Len(mySymbols)] = <<"A", "A">>
  /\ inputSymbol = <<>>

\* A list without every occurrence of sym, the others in their order.
RECURSIVE Without(_, _)
Without(list, sym) ==
  IF list = <<>> THEN <<>>
  ELSE IF Head(list) = sym THEN Without(Tail(list), sym)
  ELSE <<Head(list)>> \o Without(Tail(list), sym)

\* C17 (SpecRemove): handleRemoveSymbol(s) leaves the watch-list without any
\* occurrence of s and with the other symbols in their order, and does not
\* touch the quantity map (the entry of s included), its stored copy, or the
\* portfolioStocks on display.
C17_RemoveKeepsQuantities ==
  [][last'.op = "handleRemoveSymbol" =>
       /\ \E i \in 1..Len(mySymbols) :
             /\ mySymbols' = Without(mySymbols, mySymbols[i])
             /\ ~Includes(mySymbols', mySymbols[i])
       /\ stockQuantities' = stockQuantities
       /\ storage'.quantities = storage.quantities
       /\ portfolioStocks' = portfolioStocks]_vars

\* A removed twice from A, B, A while its quantity and its row stay.
C17_Witness ==
  /\ last.op = "handleRemoveSymbol"
  /\ mySymbols = <<SymB>>
  /\ ObjHas(stockQuantities, SymA)
  /\ storage.symbols = SaveSymbols(<<SymB>>)
  /\ Len(portfolioStocks.v) = 2
  /\ StockSymbol(portfolioStocks.v[1]) = SymA

\* C18 (SpecTable): at most one row of the table is expanded in any state;
\* toggleExpand(s) collapses s when s is the expanded symbol and expands it
\* otherwise; a click on a quantity input leaves the expansion as it is.
C18_AtMostOneRowExpanded ==
  /\ [](Cardinality(ExpandedRows) <= 1)
  /\ [][/\ (last'.op = "toggleExpand")
             => \E i \in 1..Len(portfolioStocks.v) :
                  LET s == StockSymbol(portfolioStocks.v[i])
                  IN expandedId' = IF expandedId = <<s>> THEN <<>> ELSE <<s>>
        /\ (last'.op = "clickQuantityInput") => expandedId' = expandedId]_vars

\* The per-row totals added up from the last row to the first.
RECURSIVE SumOfRowTotals(_, _)
SumOfRowTotals(stocks, quantities) ==
  IF stocks = <<>> THEN Dec(Zero)
  ELSE DecAdd(RowTotal(Head(stocks), quantities),
              SumOfRowTotals(Tail(stocks), quantities))

\* C19 (SpecTable): the grand total of the portfolio table is the sum over
\* its rows of currentPrice * quantity, a symbol without an entry in the
\* quantity map counting as 0, which is the sum of the row totals; with no
\* quantities given (the trends table) the grand total is 0.
C19_GrandTotalIsSumOfRows ==
  /\ IsRecords(portfolioStocks)
       => GrandTotal(portfolioStocks.v, Quantities(stockQuantities))
            = SumOfRowTotals(portfolioStocks.v, Quantities(stockQuantities))
  /\ IsRecords(trendStocks) => GrandTotal(trendStocks.v, NoQuantities) = Dec(Zero)
  /\ IsRecords(portfolioStocks) => GrandTotal(portfolioStocks.v, NoQuantities) = Dec(Zero)

\* Rows A at 2 and B at 3 on display with 2 of A, 0.2 of B entered: 4.6.
C19_Witness ==
  /\ RowsShown
  /\ Len(portfolioStocks.v) = 2
  /\ ObjHas(stockQuantities, SymB)
  /\ ObjGet(stockQuantities, SymB) = [m |-> 2, e |-> 1]
  /\ GrandTotal(portfolioStocks.v, Quantities(stockQuantities)) = Dec([m |-> 46, e |-> 1])

====
